---- MODULE Spec2Model ----
(***************************************************************************)
(* Task manager and process syscalls of the os4 kernel                     *)
(* (os4/src/task/mod.rs, os4/src/syscall/process.rs).                      *)
(*                                                                         *)
(* One state is the kernel between two kernel entries: the task table of   *)
(* TASK_MANAGER, the context the CPU is executing, the clock, the physical *)
(* memory the syscalls write, and the value each task last got back from a *)
(* syscall.  One action is one whole kernel entry (a syscall, a timer      *)
(* interrupt, run_first_task), up to the point where some task is back in  *)
(* user mode or the kernel has panicked.                                   *)
(***************************************************************************)
EXTENDS Integers, Sequences, FiniteSets, TLC

\* ------------------------------------------------------------------ bounds
MaxApp == 3        \* get_num_app() is drawn from 1..MaxApp
MaxYields == 1     \* a user program calls sys_yield at most MaxYields times
MaxTicks == 1      \* the clock advances at most MaxTicks times
MaxPreempt == 1    \* at most MaxPreempt timer interrupts
MaxCalls == 2      \* at most MaxCalls syscalls are counted

\* ------------------------------------------------------------ the program
VARIABLES
  num_app,       \* TaskManager.num_app
  task_status,   \* tasks[i].task_status
  first_time,    \* tasks[i].first_time   (ms)
  dispatched,    \* tasks[i].dispatched
  task_cx,       \* tasks[i].task_cx : the saved TaskContext
  current_task,  \* TaskManagerInner.current_task
  cpu,           \* the TaskContext the CPU has loaded (whose flow is running)
  booted,        \* run_first_task has been called
  panicked,      \* "" or the message of the panic that halted the kernel
  clock,         \* microseconds since boot
  ret,           \* ret[i]: <<v>> the value task i's last syscall returned, <<>> none yet
  phys,          \* physical memory: byte address -> byte, where written
  info_mem,      \* physical address -> the TaskInfo written there
  syscall_times, \* tasks[i].syscall_times[id], for the ids in SyscallIds
  memory_set,    \* tasks[i].memory_set: the set of mapped areas
  borrowed,      \* TaskManager.inner (UPSafeCell): an exclusive access is held
  \* ------------------------------------------------------- environment
  prog,          \* prog[i]: sys_yield calls task i's program still makes before sys_exit
  ticks,         \* clock advances so far
  preempts,      \* timer interrupts so far
  \* ----------------------------------------------------------- history
  op,            \* the last kernel entry: [name, task]
  sched,         \* the last scheduling decision: [table, from, pick]
  waiting,       \* waiting[i]: the kernel entry task i is switched out in, "" if none
  held_at_switch, \* the last kernel entry called __switch with the access held
  mm,            \* the last mmap/munmap entry: its arguments, and the call it made
  exits,         \* the number of sys_exit calls so far
  order          \* the tasks given the CPU, in order

vars == <<num_app, task_status, first_time, dispatched, task_cx, current_task,
          cpu, booted, panicked, clock, ret, phys, info_mem, syscall_times,
          memory_set, borrowed, prog, ticks, preempts,
          op, sched, waiting, held_at_switch, mm, exits, order>>

\* all of the state but the cell and the panic
rest == <<num_app, task_status, first_time, dispatched, task_cx, current_task,
          cpu, booted, clock, ret, phys, info_mem, syscall_times,
          memory_set, prog, ticks, preempts, op, sched, waiting, mm, exits,
          order>>

\* what the scheduling and the time syscalls leave alone
mem_state == <<syscall_times, memory_set, mm>>

None == -1         \* Option::None of find_next_task

Tasks == 0 .. (num_app - 1)

\* timer::get_time_us / get_time_ms
get_time_us == clock
get_time_ms == clock \div 1000

\* TaskContext::goto_trap_return: the context a fresh task starts from
goto_trap_return(i) == [task |-> i, at |-> "trap_return"]

\* the boot flow, which run_first_task switches away from for good
BootCx == [task |-> None, at |-> "boot"]

NoSched == [table |-> << >>, from |-> None, pick |-> None]


\* ------------------------------------------------------------- UPSafeCell

BorrowPanic == "already borrowed: BorrowMutError"

\* The exclusive accesses of one kernel entry, in order: "borrow" is
\* exclusive_access(), "drop" the end of the access, "switch" a call of
\* __switch.  A borrow while the access is held panics.
RECURSIVE CellRun(_, _)
CellRun(events, c) ==
  IF events = << >> \/ c.err THEN c
  ELSE LET e == Head(events)
       IN  CellRun(Tail(events),
             IF e = "borrow" THEN [c EXCEPT !.err = c.b, !.b = TRUE]
             ELSE IF e = "drop" THEN [c EXCEPT !.b = FALSE]
             ELSE [c EXCEPT !.sw = c.sw \/ c.b])

\* A kernel entry that makes the accesses `events` and has the effect Normal
Cell(events, Normal) ==
  LET c == CellRun(events, [b |-> borrowed, err |-> FALSE, sw |-> FALSE])
  IN  /\ borrowed' = c.b
      /\ held_at_switch' = c.sw
      /\ IF c.err
         THEN panicked' = BorrowPanic /\ UNCHANGED rest
         ELSE Normal

\* run_first_task: lines 84, 91, 95
run_first_task_cell == <<"borrow", "drop", "switch">>

\* mark_current_suspended / mark_current_exited: the access ends with the function
mark_current_cell == <<"borrow", "drop">>

\* find_next_task
find_next_task_cell == <<"borrow", "drop">>

\* faulty variant: drop(inner) is left out, the access is still held in __switch
run_next_task_cell_no_drop(found) ==
  find_next_task_cell \o (IF found THEN <<"borrow", "switch">> ELSE << >>)

\* run_next_task: find_next_task, then lines 142, 153, 156 when a task was found
run_next_task_cell(found) ==
  find_next_task_cell \o (IF found THEN <<"borrow", "drop", "switch">> ELSE << >>)

\* get_current_token
get_current_token_cell == <<"borrow", "drop">>

\* get_task_info_inner: get_current_task_syscall_times, get_current_task_costed_time
get_task_info_inner_cell == <<"borrow", "drop", "borrow", "drop">>

\* ------------------------------------------------------------ TaskManager

\* faulty variant: the status of the suspended task is left as it was
mark_current_suspended_forgotten(st, current) == st

\* mark_current_suspended
mark_current_suspended(st, current) == [st EXCEPT ![current] = "Ready"]

\* faulty variant: the task that exits is left Ready
mark_current_exited_as_ready(st, current) == [st EXCEPT ![current] = "Ready"]

\* mark_current_exited
mark_current_exited(st, current) == [st EXCEPT ![current] = "Exited"]

\* faulty variant: the scan stops before it comes back to the current task
ScanOrder_without_current(current, n) == [j \in 1 .. n - 1 |-> (current + j) % n]

\* faulty variant: the scan starts at the current task itself
ScanOrder_from_current(current, n) == [j \in 1 .. n |-> (current + j - 1) % n]

\* (current + 1..current + self.num_app + 1).map(|id| id % self.num_app)
ScanOrder(current, n) == [j \in 1 .. n |-> (current + j) % n]

\* faulty variant: any task that is not Running is taken
RECURSIVE FindNotRunning(_, _)
FindNotRunning(ids, st) ==
  IF ids = << >> THEN None
  ELSE IF st[Head(ids)] # "Running" THEN Head(ids)
  ELSE FindNotRunning(Tail(ids), st)

\* Iterator::find: the first element of ids whose status is Ready
RECURSIVE FindReady(_, _)
FindReady(ids, st) ==
  IF ids = << >> THEN None
  ELSE IF st[Head(ids)] = "Ready" THEN Head(ids)
  ELSE FindReady(Tail(ids), st)

\* faulty variant: with no Ready task the current task is taken
find_next_task_or_current(st, current, n) ==
  LET r == FindReady(ScanOrder(current, n), st) IN IF r = None THEN current ELSE r

\* faulty variant: the scan always starts at task 0
find_next_task_lowest(st, current, n) == FindReady([j \in 1 .. n |-> j - 1], st)

\* find_next_task
find_next_task(st, current, n) == FindReady(ScanOrder(current, n), st)

\* faulty variant: the dispatch time is recorded on every dispatch
first_time_on_every_dispatch(ft, dp, next, now) == [ft EXCEPT ![next] = now]

\* run_next_task, lines 145-149: the dispatch time is recorded on the first dispatch
first_time_on_dispatch(ft, dp, next, now) ==
  IF dp[next] = FALSE THEN [ft EXCEPT ![next] = now] ELSE ft

\* faulty variant: the dispatched flag is never set
dispatched_never(dp, next) == dp

\* run_next_task, line 147 (run_first_task, line 88): the task is marked dispatched
dispatched_on_dispatch(dp, next) == [dp EXCEPT ![next] = TRUE]

\* faulty variant: the context of the next task is passed as the place to save to
current_task_cx_ptr_of_next(current, next) == next

\* run_next_task, lines 151-152: the two contexts handed to __switch
current_task_cx_ptr(current, next) == current
next_task_cx_ptr(current, next) == next

\* __switch(save_to, load_from): the running flow is saved in slot save_to,
\* then the context of slot load_from is loaded
switch_save(cx, save_to, running, site) ==
  [cx EXCEPT ![save_to] = [task |-> running, at |-> site]]

switch_load(cx, load_from) == cx[load_from]

\* What the flow resumed by __switch does next, by the place it was suspended at:
\*   trap_return  -> the task enters user mode for the first time
\*   sys_yield    -> run_next_task, suspend_current_and_run_next return; sys_yield returns 0
\*   timer        -> the trap handler returns to user mode
\*   sys_exit     -> exit_current_and_run_next returns; sys_exit panics
ResumeRet(r, loaded) ==
  IF loaded.at = "sys_yield" THEN [r EXCEPT ![loaded.task] = <<0>>] ELSE r

ResumePanic(loaded) ==
  IF loaded.at = "sys_exit" THEN "Unreachable in sys_exit!" ELSE ""

\* run_next_task, after the caller marked the current task (st), entered from `site`;
\* r is ret as the caller left it
run_next_task(st, site, r) ==
  LET current == current_task
      next == find_next_task(st, current, num_app)
  IN  /\ sched' = [table |-> st, from |-> current, pick |-> next]
      /\ IF next # None
         THEN LET cx == switch_save(task_cx, current_task_cx_ptr(current, next),
                                    cpu.task, site)
                  loaded == switch_load(cx, next_task_cx_ptr(current, next))
              IN  /\ task_status' = [st EXCEPT ![next] = "Running"]
                  /\ first_time' = first_time_on_dispatch(first_time, dispatched, next,
                                                          get_time_ms)
                  /\ dispatched' = dispatched_on_dispatch(dispatched, next)
                  /\ current_task' = next
                  /\ task_cx' = cx
                  /\ cpu' = loaded
                  /\ ret' = ResumeRet(r, loaded)
                  /\ panicked' = ResumePanic(loaded)
                  /\ order' = Append(order, next)
                  /\ waiting' = [[waiting EXCEPT ![cpu.task] = site] EXCEPT ![next] = ""]
         ELSE /\ task_status' = st
              /\ panicked' = "All applications completed!"
              /\ ret' = r
              /\ waiting' = [waiting EXCEPT ![cpu.task] = site]
              /\ UNCHANGED <<first_time, dispatched, current_task, task_cx, cpu, order>>

\* ------------------------------------------------- memory and translation

PAGE_SIZE == 4096        \* config::PAGE_SIZE
MAX_SYSCALL_NUM == 500   \* config::MAX_SYSCALL_NUM

\* core::mem::size_of::<TimeVal>(): #[repr(C)] { sec: usize, usec: usize }
TimeValSize == 16
\* core::mem::size_of::<TaskInfo>(): status, [u32; MAX_SYSCALL_NUM], time: usize
TaskInfoSize == 8 + 4 * MAX_SYSCALL_NUM + 8

NoBytes == [a \in {} |-> 0]

\* The page table of the address space `token`: user pages 0..3 are mapped
\* writable, to frames that are neither contiguous nor in address order.
translate(token, vpn) == 4 * token + (3 - vpn)

Min(a, b) == IF a < b THEN a ELSE b

\* mm::translated_byte_buffer: one window per page the range [ptr, ptr+len) touches
RECURSIVE translated_from(_, _, _)
translated_from(token, start, end) ==
  IF start >= end THEN << >>
  ELSE LET vpn == start \div PAGE_SIZE
           end_va == Min((vpn + 1) * PAGE_SIZE, end)
           window == [pa |-> translate(token, vpn) * PAGE_SIZE + (start % PAGE_SIZE),
                      len |-> end_va - start]
       IN  <<window>> \o translated_from(token, end_va, end)

translated_byte_buffer(token, ptr, len) == translated_from(token, ptr, ptr + len)

\* current_user_token: the address space of tasks[current_task]
current_user_token == current_task

\* a usize in memory: 8 bytes, little endian
RECURSIVE le_bytes(_, _)
le_bytes(x, k) == IF k = 0 THEN << >> ELSE <<x % 256>> \o le_bytes(x \div 256, k - 1)

\* TimeVal { sec: us / 1_000_000, usec: us % 1_000_000 } as it lies in memory
TimeValBytes(us) == le_bytes(us \div 1000000, 8) \o le_bytes(us % 1000000, 8)

\* *ts = TimeVal {..}: the bytes are stored from address pa on
write_bytes(mem, pa, bytes) ==
  [a \in DOMAIN mem \cup (pa .. pa + Len(bytes) - 1) |->
     IF a >= pa /\ a < pa + Len(bytes) THEN bytes[a - pa + 1] ELSE mem[a]]

\* a byte of a frame nobody wrote reads as 0
read_byte(mem, a) == IF a \in DOMAIN mem THEN mem[a] ELSE 0

\* the bytes of the windows, in order
RECURSIVE read_windows(_, _)
read_windows(mem, v) ==
  IF v = << >> THEN << >>
  ELSE [k \in 1 .. Head(v).len |-> read_byte(mem, Head(v).pa + k - 1)]
       \o read_windows(mem, Tail(v))

\* sys_get_time, lines 62-76: the record is written when there is one window
get_time_write(mem, v, us) ==
  IF Len(v) = 1 THEN write_bytes(mem, v[1].pa, TimeValBytes(us)) ELSE mem

\* sys_get_time, line 79: the value returned
get_time_ret(v) == 0

\* faulty variant: the status reported is Ready
get_current_task_status_ready == "Ready"

\* get_current_task_status
get_current_task_status == "Running"

\* get_current_task_costed_time
get_current_task_costed_time == get_time_ms - first_time[current_task]

\* get_current_task_syscall_times
get_current_task_syscall_times == syscall_times[current_task]

\* get_task_info_inner: *t = TaskInfo {..}
get_task_info_inner(mem, t) ==
  [a \in DOMAIN mem \cup {t} |->
     IF a = t THEN [status |-> get_current_task_status,
                    syscall_times |-> get_current_task_syscall_times,
                    time |-> get_current_task_costed_time]
     ELSE mem[a]]

\* ------------------------------------------------------ syscall counters

\* the syscall ids the programs use: SYSCALL_YIELD, SYSCALL_GET_TIME
SyscallIds == {124, 169}

\* faulty variant: the counter of task 0 is incremented, whoever is running
add_one_to_first_task(cnt, current, call_id) ==
  [cnt EXCEPT ![0][call_id] = @ + 1]

\* add_one_to_current_task: inner.tasks[current].syscall_times[call_id] += 1
add_one_to_current_task(cnt, current, call_id) ==
  [cnt EXCEPT ![current][call_id] = @ + 1]

\* add_one_to_current_task
add_one_to_current_task_cell == <<"borrow", "drop">>

\* the number of syscalls counted so far
RECURSIVE SumOver(_, _)
SumOver(f, S) ==
  IF S = {} THEN 0
  ELSE LET x == CHOOSE y \in S : TRUE
       IN  f[x[1]][x[2]] + SumOver(f, S \ {x})

TotalCalls == SumOver(syscall_times, Tasks \X SyscallIds)

\* ------------------------------------------------------- address spaces

\* MemorySet::from_elf: the program image and the user stack, pages 0 .. 3
from_elf == {[s |-> 0, e |-> 4, perm |-> 7]}

NoMm == [name |-> "", start |-> None, len |-> None, port |-> None, called |-> FALSE]

\* the pages of [start, start + len), rounded to whole pages
PagesOf(start, len) ==
  {p \in 0 .. (start + len + PAGE_SIZE - 1) \div PAGE_SIZE :
     /\ p >= start \div PAGE_SIZE
     /\ p < (start + len + PAGE_SIZE - 1) \div PAGE_SIZE}

\* the pages mapped by a set of areas
Mapped(ms) == UNION {a.s .. a.e - 1 : a \in ms}

\* faulty variant: the new area is installed without looking at the areas there
memory_set_mmap_unchecked(ms, start, len, port) ==
  LET pages == PagesOf(start, len)
  IN  [ret |-> 0,
       ms |-> ms \cup {[s |-> start \div PAGE_SIZE,
                        e |-> start \div PAGE_SIZE + Cardinality(pages),
                        perm |-> port]}]

\* MemorySet::mmap: one new area for the pages of [start, start + len), unless
\* one of them is mapped
memory_set_mmap(ms, start, len, port) ==
  LET pages == PagesOf(start, len)
  IN  IF pages \cap Mapped(ms) # {}
      THEN [ret |-> -1, ms |-> ms]
      ELSE [ret |-> 0,
            ms |-> ms \cup {[s |-> start \div PAGE_SIZE,
                             e |-> start \div PAGE_SIZE + Cardinality(pages),
                             perm |-> port]}]

\* what is left of area a once the pages s .. e - 1 are taken out of it
Remainder(a, s, e) ==
  {b \in {[s |-> a.s, e |-> Min(a.e, s), perm |-> a.perm],
          [s |-> IF a.s > e THEN a.s ELSE e, e |-> a.e, perm |-> a.perm]} : b.s < b.e}

\* MemorySet::munmap: the pages of [start, start + len) leave the areas that
\* hold them, unless one of them is not mapped
memory_set_munmap(ms, start, len) ==
  LET pages == PagesOf(start, len)
      s == start \div PAGE_SIZE
      e == s + Cardinality(pages)
  IN  IF ~(pages \subseteq Mapped(ms))
      THEN [ret |-> -1, ms |-> ms]
      ELSE [ret |-> 0, ms |-> UNION {Remainder(a, s, e) : a \in ms}]

\* faulty variant: the permission bits are not looked at
mmap_args_invalid_any_port(start, port) == start % PAGE_SIZE # 0

\* sys_mmap_inner, line 276: !va.aligned() || port & !0x7 != 0 || port & 0x7 == 0
mmap_args_invalid(start, port) ==
  start % PAGE_SIZE # 0 \/ port \div 8 # 0 \/ port % 8 = 0

\* sys_munmap_inner, line 284: !va.aligned()
munmap_args_invalid(start) == start % PAGE_SIZE # 0

\* sys_mmap_inner: the result, the areas of the current task afterwards, and
\* whether TASK_MANAGER.mmap was called
sys_mmap_inner(ms, start, len, port) ==
  IF mmap_args_invalid(start, port)
  THEN [ret |-> -1, ms |-> ms, called |-> FALSE]
  ELSE [ret |-> memory_set_mmap(ms, start, len, port).ret,
        ms |-> memory_set_mmap(ms, start, len, port).ms,
        called |-> TRUE]

\* sys_munmap_inner
sys_munmap_inner(ms, start, len) ==
  IF munmap_args_invalid(start)
  THEN [ret |-> -1, ms |-> ms, called |-> FALSE]
  ELSE [ret |-> memory_set_munmap(ms, start, len).ret,
        ms |-> memory_set_munmap(ms, start, len).ms,
        called |-> TRUE]

\* sys_mmap (process.rs)
sys_mmap(ms, start, len, port) == [ret |-> -1, ms |-> ms, called |-> FALSE]

\* sys_munmap (process.rs)
sys_munmap(ms, start, len) == [ret |-> -1, ms |-> ms, called |-> FALSE]

\* TaskManager::mmap / TaskManager::munmap
task_manager_mmap_cell == <<"borrow", "drop">>

\* ---------------------------------------------------------------- actions

Live == booted /\ panicked = ""

\* run_first_task
RunFirstTask ==
  /\ ~booted /\ panicked = ""
  /\ Cell(run_first_task_cell,
       /\ booted' = TRUE
       /\ task_status' = [task_status EXCEPT ![0] = "Running"]
       /\ first_time' = [first_time EXCEPT ![0] = get_time_ms]
       /\ dispatched' = dispatched_on_dispatch(dispatched, 0)
       /\ cpu' = switch_load(task_cx, 0)
       /\ order' = Append(order, 0)
       /\ op' = [name |-> "run_first_task", task |-> None, ptr |-> None]
       /\ UNCHANGED <<exits, num_app, task_cx, current_task, panicked, clock, ret, phys,
                      info_mem, prog, ticks, preempts, sched, waiting>>
       /\ UNCHANGED mem_state)

\* the exclusive accesses of suspend_current_and_run_next / exit_current_and_run_next
mark_and_run_next_cell(st) ==
  mark_current_cell \o run_next_task_cell(find_next_task(st, current_task, num_app) # None)

\* sys_yield -> suspend_current_and_run_next
SysYield ==
  /\ Live
  /\ prog[cpu.task] > 0
  /\ LET st == mark_current_suspended(task_status, current_task)
     IN  Cell(mark_and_run_next_cell(st),
           /\ prog' = [prog EXCEPT ![cpu.task] = @ - 1]
           /\ op' = [name |-> "sys_yield", task |-> cpu.task, ptr |-> None]
           /\ run_next_task(st, "sys_yield", [ret EXCEPT ![cpu.task] = << >>])
           /\ UNCHANGED <<exits, num_app, booted, clock, phys, info_mem, ticks, preempts>>
           /\ UNCHANGED mem_state)

\* timer interrupt -> suspend_current_and_run_next
TimerInterrupt ==
  /\ Live
  /\ preempts < MaxPreempt
  /\ LET st == mark_current_suspended(task_status, current_task)
     IN  Cell(mark_and_run_next_cell(st),
           /\ preempts' = preempts + 1
           /\ op' = [name |-> "timer", task |-> cpu.task, ptr |-> None]
           /\ run_next_task(st, "timer", ret)
           /\ UNCHANGED <<exits, num_app, booted, clock, phys, info_mem, prog, ticks>>
           /\ UNCHANGED mem_state)

\* sys_exit -> exit_current_and_run_next
SysExit ==
  /\ Live
  /\ prog[cpu.task] = 0
  /\ LET st == mark_current_exited(task_status, current_task)
     IN  Cell(mark_and_run_next_cell(st),
           /\ op' = [name |-> "sys_exit", task |-> cpu.task, ptr |-> None]
           /\ exits' = exits + 1
           /\ run_next_task(st, "sys_exit", [ret EXCEPT ![cpu.task] = << >>])
           /\ UNCHANGED <<num_app, booted, clock, phys, info_mem, prog, ticks, preempts>>
           /\ UNCHANGED mem_state)

\* the buffers the user programs pass: inside one page, and across a page boundary
TimeBufs == {PAGE_SIZE - TimeValSize, PAGE_SIZE - 4}
InfoBufs == {2 * PAGE_SIZE, 3 * PAGE_SIZE - 4}

\* sys_get_time(ts, tz)
SysGetTime ==
  /\ Live
  /\ \E ts \in TimeBufs :
       LET v == translated_byte_buffer(current_user_token, ts, TimeValSize)
           us == get_time_us
       IN  Cell(get_current_token_cell,
             /\ phys' = get_time_write(phys, v, us)
             /\ ret' = [ret EXCEPT ![cpu.task] = <<get_time_ret(v)>>]
             /\ op' = [name |-> "sys_get_time", task |-> cpu.task, ptr |-> ts]
             /\ UNCHANGED <<exits, num_app, task_status, first_time, dispatched, task_cx,
                            current_task, cpu, booted, panicked, clock, info_mem, prog,
                            ticks, preempts, sched, waiting, order>>
             /\ UNCHANGED mem_state)

\* sys_task_info(ti)
SysTaskInfo ==
  /\ Live
  /\ \E ti \in InfoBufs :
       LET v == translated_byte_buffer(current_user_token, ti, TaskInfoSize)
       IN  Cell(get_current_token_cell
                  \o (IF Len(v) = 1 THEN get_task_info_inner_cell ELSE << >>),
             /\ op' = [name |-> "sys_task_info", task |-> cpu.task, ptr |-> ti]
             /\ IF Len(v) = 1
                THEN /\ info_mem' = get_task_info_inner(info_mem, v[1].pa)
                     /\ ret' = [ret EXCEPT ![cpu.task] = <<0>>]
                     /\ UNCHANGED panicked
                ELSE /\ panicked' = "!!!!"
                     /\ ret' = [ret EXCEPT ![cpu.task] = << >>]
                     /\ UNCHANGED info_mem
             /\ UNCHANGED <<exits, num_app, task_status, first_time, dispatched, task_cx,
                            current_task, cpu, booted, clock, phys, prog, ticks, preempts,
                            sched, waiting, order>>
             /\ UNCHANGED mem_state)

\* add_one_while_syscall(call_id)
AddOneWhileSyscall ==
  /\ Live
  /\ TotalCalls < MaxCalls
  /\ \E call_id \in SyscallIds :
       Cell(add_one_to_current_task_cell,
         /\ syscall_times' = add_one_to_current_task(syscall_times, current_task, call_id)
         /\ op' = [name |-> "add_one_while_syscall", task |-> cpu.task, ptr |-> call_id]
         /\ UNCHANGED <<exits, num_app, task_status, first_time, dispatched, task_cx,
                        current_task, cpu, booted, panicked, clock, ret, phys, info_mem,
                        memory_set, prog, ticks, preempts, sched, waiting, mm, order>>)

\* the arguments the user programs pass to mmap and munmap: page 3 is part of
\* the program image, pages 4 and 5 are free at first
MmapStarts == {3 * PAGE_SIZE, 4 * PAGE_SIZE, 4 * PAGE_SIZE + 8}
MmapLens == {PAGE_SIZE, PAGE_SIZE + 1}
MmapPorts == {0, 3, 9}

\* an mmap or munmap entry of the current task with result r
MmStep(name, start, len, port, r) ==
  Cell(IF r.called THEN task_manager_mmap_cell ELSE << >>,
    /\ memory_set' = [memory_set EXCEPT ![current_task] = r.ms]
    /\ ret' = [ret EXCEPT ![cpu.task] = <<r.ret>>]
    /\ mm' = [name |-> name, start |-> start, len |-> len, port |-> port,
              called |-> r.called]
    /\ op' = [name |-> name, task |-> cpu.task, ptr |-> None]
    /\ UNCHANGED <<exits, num_app, task_status, first_time, dispatched, task_cx,
                   current_task, cpu, booted, panicked, clock, phys, info_mem,
                   syscall_times, prog, ticks, preempts, sched, waiting, order>>)

\* sys_mmap(start, len, port)
SysMmap ==
  /\ Live
  /\ \E start \in MmapStarts, len \in MmapLens, port \in MmapPorts :
       MmStep("sys_mmap", start, len, port,
              sys_mmap(memory_set[current_task], start, len, port))

\* sys_munmap(start, len)
SysMunmap ==
  /\ Live
  /\ \E start \in MmapStarts, len \in MmapLens :
       MmStep("sys_munmap", start, len, None,
              sys_munmap(memory_set[current_task], start, len))

\* sys_mmap_inner(start, len, port)
SysMmapInner ==
  /\ Live
  /\ \E start \in MmapStarts, len \in MmapLens, port \in MmapPorts :
       MmStep("sys_mmap_inner", start, len, port,
              sys_mmap_inner(memory_set[current_task], start, len, port))

\* sys_munmap_inner(start, len)
SysMunmapInner ==
  /\ Live
  /\ \E start \in MmapStarts, len \in MmapLens :
       MmStep("sys_munmap_inner", start, len, None,
              sys_munmap_inner(memory_set[current_task], start, len))

\* the clock advances
Tick ==
  /\ panicked = ""
  /\ ticks < MaxTicks
  /\ clock' = clock + 1000300
  /\ ticks' = ticks + 1
  /\ op' = [name |-> "tick", task |-> None, ptr |-> None]
  /\ UNCHANGED <<exits, num_app, task_status, first_time, dispatched, task_cx, current_task,
                 cpu, booted, panicked, ret, phys, info_mem, prog, preempts, sched,
                 waiting, order>>
  /\ UNCHANGED <<borrowed, held_at_switch>>
  /\ UNCHANGED mem_state

\* TASK_MANAGER (lazy_static) for the loaded programs
InitTaskManager(n) ==
  /\ num_app = n
  /\ task_status = [i \in 0 .. n - 1 |-> "Ready"]
  /\ first_time = [i \in 0 .. n - 1 |-> 0]
  /\ dispatched = [i \in 0 .. n - 1 |-> FALSE]
  /\ task_cx = [i \in 0 .. n - 1 |-> goto_trap_return(i)]
  /\ current_task = 0
  /\ cpu = BootCx
  /\ booted = FALSE
  /\ panicked = ""
  /\ clock = 0
  /\ ret = [i \in 0 .. n - 1 |-> << >>]
  /\ phys = NoBytes
  /\ info_mem = NoBytes
  /\ syscall_times = [i \in 0 .. n - 1 |-> [id \in SyscallIds |-> 0]]
  /\ memory_set = [i \in 0 .. n - 1 |-> from_elf]
  /\ borrowed = FALSE
  /\ held_at_switch = FALSE
  /\ mm = NoMm
  /\ ticks = 0
  /\ preempts = 0
  /\ op = [name |-> "init", task |-> None, ptr |-> None]
  /\ sched = NoSched
  /\ waiting = [i \in 0 .. n - 1 |-> ""]
  /\ exits = 0
  /\ order = << >>

Init ==
  \E n \in 1 .. MaxApp :
    /\ InitTaskManager(n)
    /\ prog \in [0 .. n - 1 -> 0 .. MaxYields]

Next == RunFirstTask \/ SysYield \/ TimerInterrupt \/ SysExit \/ Tick

Spec == Init /\ [][Next]_vars

\* The scheduler for three programs, when the kernel boots and every program
\* goes on to its next sys_yield or sys_exit.
InitFair ==
  /\ InitTaskManager(3)
  /\ prog \in [0 .. 2 -> 0 .. MaxYields]

NextFair == RunFirstTask \/ SysYield \/ TimerInterrupt \/ SysExit

SpecFair ==
  /\ InitFair
  /\ [][NextFair]_vars
  /\ WF_vars(RunFirstTask)
  /\ WF_vars(SysYield \/ SysExit)

\* The syscalls that write user memory, for programs that never yield:
\* the tasks run one after the other, each until its sys_exit.
InitSys ==
  \E n \in 1 .. MaxApp :
    /\ InitTaskManager(n)
    /\ prog = [i \in 0 .. n - 1 |-> 0]

NextSys == RunFirstTask \/ SysGetTime \/ SysTaskInfo \/ SysExit \/ Tick

SpecSys == InitSys /\ [][NextSys]_vars

\* The syscall counters: two programs that yield and exit, the trap layer
\* counting their syscalls.
InitCount ==
  /\ InitTaskManager(2)
  /\ prog \in [0 .. 1 -> 0 .. MaxYields]

NextCount == RunFirstTask \/ AddOneWhileSyscall \/ SysYield \/ SysExit

SpecCount == InitCount /\ [][NextCount]_vars

\* The queries: two programs that yield and exit ask for their TaskInfo.
NextInfo == RunFirstTask \/ SysYield \/ TimerInterrupt \/ SysExit \/ SysTaskInfo \/ Tick

SpecInfo == InitCount /\ [][NextInfo]_vars

\* The address spaces: two programs that never yield map and unmap memory.
InitMm ==
  /\ InitTaskManager(2)
  /\ prog = [i \in 0 .. 1 |-> 0]

NextMm ==
  RunFirstTask \/ SysMmap \/ SysMunmap \/ SysMmapInner \/ SysMunmapInner \/ SysExit

SpecMm == InitMm /\ [][NextMm]_vars

\* The end-to-end scenario: three tasks, task 0 yields twice and exits, tasks
\* 1 and 2 exit without yielding.
InitScenario ==
  /\ InitTaskManager(3)
  /\ prog = [i \in 0 .. 2 |-> IF i = 0 THEN 2 ELSE 0]

NextScenario ==
  RunFirstTask \/ SysYield \/ TimerInterrupt \/ SysExit \/ SysGetTime \/ Tick

SpecScenario == InitScenario /\ [][NextScenario]_vars

\* ------------------------------------------------------------------ claims

SchedOps == {"sys_yield", "timer", "sys_exit"}
AllCompleted == "All applications completed!"
IsPrefix(a, b) == Len(a) <= Len(b) /\ a = SubSeq(b, 1, Len(a))
Last(q) == q[Len(q)]
\* the place of task i in the scan that starts after task k
Dist(i, k) == (i + num_app - k - 1) % num_app

\* C1: in every state reached by run_first_task and any sequence of suspends
\* and exits, at most one task has status Running; so it is in the table the
\* scheduler scans, between the marking of the current task and the dispatch.
C1_AtMostOneRunning ==
  /\ Cardinality({i \in Tasks : task_status[i] = "Running"}) <= 1
  /\ sched.from # None =>
       Cardinality({i \in Tasks : sched.table[i] = "Running"}) <= 1

\* a suspend has just switched from one task to another one
C1_Witness ==
  /\ op.name \in {"sys_yield", "timer"}
  /\ current_task # sched.from
  /\ task_status[current_task] = "Running"
  /\ task_status[sched.from] = "Ready"

\* C2: the scheduler's selection is the first index in the order (k+1) mod N,
\* ..., (k+N) mod N whose status is Ready: it is Ready, no Ready task comes
\* before it in that order, and nothing is selected only when no task is Ready.
C2_RoundRobin ==
  sched.from # None =>
    LET st == sched.table
        k == sched.from
        r == sched.pick
    IN  /\ r = None <=> (\A i \in Tasks : st[i] # "Ready")
        /\ r # None =>
             /\ r \in Tasks
             /\ st[r] = "Ready"
             /\ \A i \in Tasks : st[i] = "Ready" => Dist(r, k) <= Dist(i, k)

\* a selection that passed over a task that was not Ready and left a Ready one behind
C2_Witness ==
  /\ sched.from # None /\ sched.pick # None
  /\ Dist(sched.pick, sched.from) >= 1
  /\ \E i \in Tasks : sched.table[i] = "Ready" /\ Dist(i, sched.from) > Dist(sched.pick, sched.from)

\* C3: Exited is terminal: a task that is Exited stays Exited, is never the
\* task selected by a later scheduling, and the flow that called sys_exit is
\* never resumed (sys_exit never returns).
C3_ExitedIsTerminal ==
  [][ /\ \A i \in Tasks : task_status[i] = "Exited" => task_status'[i] = "Exited"
      /\ order' # order =>
           /\ task_status[Last(order')] # "Exited"
           /\ op'.name = "sys_exit" => Last(order') # op'.task
      /\ cpu'.at # "sys_exit"
      /\ panicked' # "Unreachable in sys_exit!" ]_vars

\* a scheduling by another task passed over a task that had exited before
C3_Witness ==
  /\ op.name \in SchedOps /\ sched.pick # None
  /\ \E i \in Tasks :
       /\ task_status[i] = "Exited" /\ i # op.task
       /\ Dist(i, sched.from) < Dist(sched.pick, sched.from)

\* C4: the dispatch time of a task is written exactly once, at its first
\* transition into Running, with the time of that moment; no later step, and
\* no later transition into Running, changes it or the dispatched flag.
C4_DispatchTimeOnce ==
  [][ \A i \in Tasks :
        /\ dispatched[i] => dispatched'[i] /\ first_time'[i] = first_time[i]
        /\ ~dispatched[i] /\ task_status'[i] = "Running" =>
             dispatched'[i] /\ first_time'[i] = clock \div 1000
        /\ ~dispatched[i] /\ task_status'[i] # "Running" =>
             ~dispatched'[i] /\ first_time'[i] = first_time[i] ]_vars

\* a task was just given the CPU again, later than its dispatch time
C4_Witness ==
  /\ op.name \in SchedOps /\ sched.pick # None
  /\ Cardinality({k \in 1 .. Len(order) : order[k] = current_task}) >= 2
  /\ task_status[current_task] = "Running"
  /\ clock \div 1000 > first_time[current_task]

\* C5: when the scheduler is invoked and no task is Ready, the kernel halts
\* with "All applications completed!": no task becomes Running, current_task
\* is not updated and no context is saved or loaded.
C5_HaltWhenNoneReady ==
  [][ (op'.name \in SchedOps /\ \A i \in Tasks : sched'.table[i] # "Ready") =>
        /\ panicked' = AllCompleted
        /\ \A i \in Tasks : task_status'[i] # "Running"
        /\ current_task' = current_task
        /\ task_cx' = task_cx /\ cpu' = cpu /\ order' = order ]_vars

\* the kernel halted on the exit of the last of several tasks
C5_Witness ==
  /\ panicked = AllCompleted /\ num_app >= 2
  /\ op.name = "sys_exit" /\ sched.pick = None
  /\ \A i \in Tasks : task_status[i] = "Exited"

\* C7: a task that called sys_yield, when it is selected next, resumes in its
\* own sys_yield: the context loaded is the one it saved there, it is Running,
\* current_task is its id, and its sys_yield returns 0.
C7_YieldResumes ==
  [][ \A i \in Tasks :
        ( /\ order' # order /\ Last(order') = i
          /\ \/ waiting[i] = "sys_yield"
             \/ op'.name = "sys_yield" /\ op'.task = i ) =>
        /\ cpu' = [task |-> i, at |-> "sys_yield"]
        /\ task_status'[i] = "Running"
        /\ current_task' = i
        /\ ret'[i] = <<0>>
        /\ panicked' = "" ]_vars

\* a task that yielded was resumed by another task's scheduling, while a
\* third context is saved as well
C7_Witness ==
  /\ op.name \in SchedOps /\ op.task # cpu.task
  /\ cpu.at = "sys_yield" /\ ret[cpu.task] = <<0>>
  /\ current_task = cpu.task
  /\ \E j \in Tasks : j # cpu.task /\ waiting[j] \in {"sys_yield", "timer"}

\* C6, as stated: in the scenario the tasks are given the CPU in the order
\* 0, 1, 2, 0, 2, and the kernel halts with all three tasks exited.
C6_OrderAsClaimed ==
  panicked # "" =>
    /\ panicked = AllCompleted
    /\ order = <<0, 1, 2, 0, 2>>
    /\ \A i \in Tasks : task_status[i] = "Exited"

\* C6, amended: with no timer interrupt the order is 0, 1 (exits), 2 (exits),
\* 0 (resumed from its first yield), 0 (selected again on its second yield,
\* being the only Ready task), and the kernel halts exactly on the exit of
\* task 0, all tasks exited; every timer interrupt adds one entry to the order.
C6_Schedule ==
  /\ preempts = 0 =>
       /\ IsPrefix(order, <<0, 1, 2, 0, 0>>)
       /\ Len(order) >= 3 => task_status[1] = "Exited"
       /\ Len(order) >= 4 => task_status[2] = "Exited"
       /\ panicked # "" =>
            /\ order = <<0, 1, 2, 0, 0>>
            /\ op.name = "sys_exit" /\ op.task = 0
  /\ panicked # "" =>
       /\ panicked = AllCompleted
       /\ Len(order) = 5 + preempts
       /\ \A i \in Tasks : task_status[i] = "Exited"

\* the scenario has run to the halt without a timer interrupt
C6_Witness ==
  /\ panicked = AllCompleted
  /\ preempts = 0
  /\ order = <<0, 1, 2, 0, 0>>
  /\ prog = [i \in 0 .. 2 |-> 0]

\* C8: a sys_get_time whose buffer translates to more than one window is
\* reported to the caller as a failure and writes nothing; sys_get_time
\* returns 0 only when the time record was written.
C8_CrossPageReported ==
  [][ op'.name = "sys_get_time" =>
        LET v == translated_byte_buffer(op'.task, op'.ptr, TimeValSize)
        IN  /\ Len(v) > 1 => ret'[op'.task] # <<0>> /\ phys' = phys
            /\ ret'[op'.task] = <<0>> =>
                 read_windows(phys', v) = TimeValBytes(clock) ]_vars

\* C9: sys_get_time with the record at page_size - 4: the translation gives
\* two windows of 4 and 12 bytes, and the 16 bytes read back from them in
\* order are the record (seconds, then microseconds) of the time of the call.
C9_CrossPageRecordIntact ==
  (op.name = "sys_get_time" /\ op.ptr = PAGE_SIZE - 4) =>
    LET v == translated_byte_buffer(op.task, op.ptr, TimeValSize)
    IN  /\ Len(v) = 2 /\ v[1].len = 4 /\ v[2].len = 12
        /\ read_windows(phys, v) = TimeValBytes(clock)

\* C10: a sys_task_info whose buffer translates to more than one window does
\* not halt the kernel: it returns a negative value to the caller, writes
\* nothing, and leaves the task statuses and current_task as they were.
C10_CrossPageNoPanic ==
  [][ ( /\ op'.name = "sys_task_info"
        /\ Len(translated_byte_buffer(op'.task, op'.ptr, TaskInfoSize)) > 1 ) =>
        /\ panicked' = ""
        /\ ret'[op'.task] # << >> /\ ret'[op'.task][1] < 0
        /\ info_mem' = info_mem /\ phys' = phys
        /\ task_status' = task_status /\ current_task' = current_task ]_vars

\* ------------------------------------------------------ mmap and munmap

MmapOps == {"sys_mmap", "sys_mmap_inner"}
MunmapOps == {"sys_munmap", "sys_munmap_inner"}

\* the arguments of the entry recorded in m are not acceptable: start is not
\* page-aligned, or (mmap) port has a bit outside the low 3 or none of the low 3
RejectedArgs(o, m) ==
  \/ o.name \in MmapOps \cup MunmapOps /\ m.start % PAGE_SIZE # 0
  \/ o.name \in MmapOps /\ (m.port > 7 \/ m.port % 8 = 0)

\* C11: mmap with a start that is not page-aligned, a port with a bit outside the
\* low 3 bits or a port whose low 3 bits are all zero, and munmap with a start
\* that is not page-aligned, return -1, leave every address space and the whole
\* task table as they were, and make no call into the address space.
C11_InvalidArgsRejected ==
  [][ RejectedArgs(op', mm') =>
        /\ ret'[op'.task] = <<-1>>
        /\ ~mm'.called
        /\ memory_set' = memory_set
        /\ task_status' = task_status /\ current_task' = current_task
        /\ first_time' = first_time /\ dispatched' = dispatched
        /\ task_cx' = task_cx /\ syscall_times' = syscall_times
        /\ panicked' = panicked ]_vars

\* sys_mmap_inner rejected an aligned start for its port, after the task had
\* mapped memory
C11_Witness ==
  /\ op.name = "sys_mmap_inner" /\ mm.start % PAGE_SIZE = 0 /\ mm.port = 9
  /\ ret[op.task] = <<-1>> /\ ~mm.called
  /\ memory_set[op.task] # from_elf

\* C12 (as claimed): sys_mmap of a page-aligned range with a valid port and
\* nothing mapped in the range returns 0.
C12_MmapSucceeds ==
  (/\ op.name = "sys_mmap"
   /\ mm.start % PAGE_SIZE = 0 /\ mm.port \in 1 .. 7
   /\ PagesOf(mm.start, mm.len) \cap Mapped(memory_set[op.task]) = {})
  => ret[op.task] = <<0>>

\* no two areas of an address space share a page
NonOverlapping(msets) ==
  \A i \in DOMAIN msets : \A a, b \in msets[i] :
    a # b => (a.s .. a.e - 1) \cap (b.s .. b.e - 1) = {}

\* C13: the areas of every address space are pairwise non-overlapping after
\* any sequence of mmap and munmap calls, and an mmap that reaches the address
\* space with a range that intersects a mapped area returns -1 and leaves the
\* address space as it was.
C13_NoOverlap ==
  [][ /\ NonOverlapping(memory_set) /\ NonOverlapping(memory_set')
      /\ (/\ op'.name \in MmapOps /\ mm'.called
          /\ PagesOf(mm'.start, mm'.len) \cap Mapped(memory_set[current_task]) # {})
         => (ret'[op'.task] = <<-1>> /\ memory_set' = memory_set) ]_vars

\* an mmap of two pages was refused because its second page is mapped, in an
\* address space of three areas
C13_Witness ==
  /\ op.name = "sys_mmap_inner" /\ mm.called /\ ret[op.task] = <<-1>>
  /\ mm.start = 4 * PAGE_SIZE /\ mm.len = PAGE_SIZE + 1
  /\ 4 \notin Mapped(memory_set[op.task]) /\ 5 \in Mapped(memory_set[op.task])
  /\ Cardinality(memory_set[op.task]) >= 2

\* ------------------------------------------------------ syscall counters

\* C14: add_one_while_syscall(id) increases the counter of the current task for
\* id by exactly 1 and leaves every other counter of every task as it was; no
\* other kernel entry (yield, exit, the first dispatch) changes a
\* counter, so no counter ever decreases or is reset.
C14_CountersFrame ==
  [][ /\ op'.name = "add_one_while_syscall" =>
           \A i \in Tasks : \A id \in SyscallIds :
             syscall_times'[i][id] =
               syscall_times[i][id]
                 + (IF i = current_task /\ id = op'.ptr THEN 1 ELSE 0)
      /\ op'.name # "add_one_while_syscall" => syscall_times' = syscall_times
      /\ \A i \in Tasks : \A id \in SyscallIds :
           syscall_times'[i][id] >= syscall_times[i][id] ]_vars

\* counters of two tasks and two ids, counted before the tasks were switched
\* out, are still there when the last task has exited
C14_Witness ==
  /\ num_app >= 2
  /\ panicked = AllCompleted
  /\ syscall_times[0][124] = 1 /\ syscall_times[0][169] = 0
  /\ syscall_times[1][169] = 1 /\ syscall_times[1][124] = 0

\* ------------------------------------------------------ exclusive access

\* C15: at every __switch (in run_first_task and in run_next_task) the
\* exclusive access to the task table has been released, no kernel entry asks
\* for the access while it is held, and the access is free whenever a task is
\* back in user mode, so the task that was switched to acquires it on its next
\* kernel entry.
C15_AccessReleasedAtSwitch ==
  /\ ~held_at_switch
  /\ ~borrowed
  /\ panicked # BorrowPanic

\* a task that was switched to has itself entered the kernel, taken the access
\* and switched to another task
C15_Witness ==
  /\ panicked = ""
  /\ op.name \in SchedOps /\ op.task # 0
  /\ sched.pick # None /\ sched.pick # sched.from
  /\ ~borrowed /\ ~held_at_switch

\* ------------------------------------------------------ the current task

\* the TaskInfo the last sys_task_info wrote
LastTaskInfo ==
  info_mem[translated_byte_buffer(current_user_token, op.ptr, TaskInfoSize)[1].pa]

\* C16: after run_first_task, whenever a task runs outside a scheduling
\* operation, tasks[current_task] is Running, is the task on the CPU and is
\* the only Running task; the status a sys_task_info has just reported equals
\* the status of the current task in the task table.
C16_CurrentIsRunning ==
  Live =>
    /\ task_status[current_task] = "Running"
    /\ cpu.task = current_task
    /\ \A i \in Tasks : task_status[i] = "Running" => i = current_task
    /\ (op.name = "sys_task_info" /\ ret[op.task] = <<0>>)
         => LastTaskInfo.status = task_status[current_task]

\* the second task, dispatched again after a yield, has asked for its
\* TaskInfo while another task is Ready
C16_Witness ==
  /\ Live
  /\ op.name = "sys_task_info" /\ ret[op.task] = <<0>>
  /\ current_task # 0 /\ Len(order) >= 3
  /\ \E i \in Tasks : task_status[i] = "Ready"
  /\ LastTaskInfo.status = "Running"

\* task i has been given the CPU
EverRunning(i) == task_status[i] = "Running" \/ \E k \in 1 .. Len(order) : order[k] = i

\* C17: every task that is Running or has ever been Running has dispatched
\* true and a dispatch time that is not after the clock; so the elapsed time
\* of the current task (now - dispatch time) is computed from a recorded
\* dispatch time and is never below 0, also in the TaskInfo just written.
C17_DispatchRecorded ==
  /\ \A i \in Tasks : EverRunning(i) => (dispatched[i] /\ first_time[i] <= get_time_ms)
  /\ Live => (dispatched[current_task] /\ get_current_task_costed_time >= 0)
  /\ (Live /\ op.name = "sys_task_info" /\ ret[op.task] = <<0>>)
       => (LastTaskInfo.time >= 0 /\ LastTaskInfo.time <= get_time_ms)

\* the second task, dispatched before the clock advanced, has been told an
\* elapsed time above 0; the first task was switched out before
C17_Witness ==
  /\ Live
  /\ op.name = "sys_task_info" /\ ret[op.task] = <<0>>
  /\ current_task = 1 /\ task_status[0] = "Ready"
  /\ LastTaskInfo.time = 1000
  /\ get_current_task_costed_time = 1000

\* ------------------------------------------------------ fairness of the scan

\* the tasks given the CPU since task i was last given it (since the start,
\* if it never was)
SinceLast(i) ==
  LET ks == {k \in 1 .. Len(order) : order[k] = i}
      last == IF ks = {} THEN 0 ELSE CHOOSE k \in ks : \A m \in ks : m <= k
  IN  SubSeq(order, last + 1, Len(order))

\* C18: while a task is Ready, every other task has been selected at most once
\* since it became Ready, so at most N - 1 selections of other tasks come
\* before the task is selected again.
C18_NoStarvation ==
  \A i \in Tasks :
    task_status[i] = "Ready" =>
      LET q == SinceLast(i)
      IN  /\ \A k, m \in 1 .. Len(q) : q[k] = q[m] => k = m
          /\ Len(q) <= num_app - 1

\* a task that yielded is still Ready after each of the two other tasks has
\* been selected once
C18_Witness ==
  /\ num_app = 3 /\ panicked = ""
  /\ \E i \in Tasks :
       /\ task_status[i] = "Ready" /\ waiting[i] = "sys_yield"
       /\ Len(SinceLast(i)) = 2

\* C19: the kernel halts with 'All applications completed!' only when every
\* task is Exited, and only in sys_exit; suspend_current_and_run_next (a
\* sys_yield or a timer interrupt) never halts and always finds a task; when
\* the task that is suspended is the only Ready task it is selected again and
\* switched to itself, where it was suspended.
C19_HaltOnlyWhenAllExited ==
  [][ /\ panicked' = AllCompleted =>
           (op'.name = "sys_exit" /\ \A i \in Tasks : task_status'[i] = "Exited")
      /\ op'.name \in {"sys_yield", "timer"} =>
           /\ panicked' = "" /\ sched'.pick # None
           /\ (\A j \in Tasks : j # current_task => task_status[j] # "Ready") =>
                /\ sched'.pick = current_task /\ current_task' = current_task
                /\ task_status'[current_task] = "Running"
                /\ cpu' = [task |-> current_task, at |-> op'.name]
                /\ Last(order') = current_task ]_vars

\* the last task left yielded and was switched to itself
C19_Witness ==
  /\ panicked = "" /\ num_app >= 2
  /\ op.name = "sys_yield" /\ sched.pick = sched.from
  /\ \A j \in Tasks : j # current_task => task_status[j] = "Exited"
  /\ cpu = [task |-> current_task, at |-> "sys_yield"]
  /\ ret[current_task] = <<0>>

\* ------------------------------------------------------------ termination

\* C20: when every program yields finitely many times and then exits, the
\* kernel eventually halts with 'All applications completed!'; at the halt
\* every task has been dispatched and is Exited, and exactly N sys_exit calls
\* have been made, the halt coming with the last of them.
C20_AllTasksComplete ==
  /\ <>(panicked = AllCompleted)
  /\ [](IF panicked = AllCompleted
        THEN /\ \A i \in Tasks :
                  /\ dispatched[i] /\ task_status[i] = "Exited"
                  /\ \E k \in 1 .. Len(order) : order[k] = i
             /\ exits = num_app /\ op.name = "sys_exit"
        ELSE exits < num_app)

\* three programs, one of which yielded, have all exited and the kernel has
\* halted
C20_Witness ==
  /\ panicked = AllCompleted
  /\ num_app = 3 /\ exits = 3
  /\ Len(order) > 3
  /\ \A i \in Tasks : dispatched[i] /\ task_status[i] = "Exited"

====
